---- MODULE Spec2Model ----
(***************************************************************************)
(* MeasureApCorrTask.run (python/lsst/meas/algorithms/measureApCorr.py):   *)
(* selection of the calibration stars, per-field narrowing, the minimum    *)
(* sample policy, the degree adaptation, the sigma-clipped fit loop, the   *)
(* output map and the "used" flags.                                        *)
(*                                                                         *)
(* Floating point values are modelled exactly: a value is a record         *)
(* [t, n, d] with t = "fin" (the rational n/d in lowest terms), "nan",     *)
(* "inf" (n = 1 or -1 is the sign), "root" (the non-negative square root   *)
(* of n/d) or "nroot" (minus that root).  Comparisons with NaN are false.  *)
(* A "tiny" value is n/d times a power of two so small that the product of *)
(* two such values underflows to 0.0 and that adding one to any other      *)
(* non-zero value leaves that value unchanged.                             *)
(***************************************************************************)
EXTENDS Integers, Sequences, FiniteSets, TLC

(* ------------------------------ bounds -------------------------------- *)
MaxRecords == 3
MaxNumIter == 2
MaxMinDof == 2
MaxOrder == 1
MaxDegree == 2

(* ----------------------------- arithmetic ----------------------------- *)
Abs(i) == IF i < 0 THEN -i ELSE i

Sign(i) == IF i < 0 THEN -1 ELSE IF i > 0 THEN 1 ELSE 0

RECURSIVE GCD(_, _)
GCD(a, b) == IF b = 0 THEN a ELSE GCD(b, a % b)

Fin(n, d) ==
    LET g == GCD(Abs(n), d)
    IN  [t |-> "fin", n |-> n \div g, d |-> d \div g]

\* n/d times the tiny unit (0.0 when n = 0)
Tiny(n, d) ==
    LET g == GCD(Abs(n), d)
    IN  IF n = 0 THEN Fin(0, 1) ELSE [t |-> "tiny", n |-> n \div g, d |-> d \div g]

NaN == [t |-> "nan", n |-> 0, d |-> 1]

Inf(s) == [t |-> "inf", n |-> s, d |-> 1]

IsNaN(a) == a.t = "nan"

\* numpy.isfinite
IsFinite(a) == a.t \in {"fin", "tiny"}

\* a > 0.0 (false for NaN)
GtZero(a) == a.t \in {"fin", "inf", "tiny"} /\ a.n > 0

FNeg(a) == IF a.t = "nan" THEN NaN ELSE [a EXCEPT !.n = -a.n]

FAdd(a, b) ==
    IF a.t = "nan" \/ b.t = "nan" THEN NaN
    ELSE IF a.t = "inf" /\ b.t = "inf" THEN (IF a.n = b.n THEN a ELSE NaN)
    ELSE IF a.t = "inf" THEN a
    ELSE IF b.t = "inf" THEN b
    ELSE IF a.t = "tiny" /\ b.t = "tiny"
         THEN Tiny(a.n * b.d + b.n * a.d, a.d * b.d)
    ELSE IF a.t = "tiny" THEN (IF b.n = 0 THEN a ELSE b)
    ELSE IF b.t = "tiny" THEN (IF a.n = 0 THEN b ELSE a)
    ELSE LET g == GCD(a.d, b.d)
         IN  Fin(a.n * (b.d \div g) + b.n * (a.d \div g), (a.d \div g) * b.d)

FSub(a, b) == FAdd(a, FNeg(b))

FMul(a, b) ==
    IF a.t = "nan" \/ b.t = "nan" THEN NaN
    ELSE IF a.t = "inf" \/ b.t = "inf"
         THEN (IF a.n = 0 \/ b.n = 0 THEN NaN ELSE Inf(Sign(a.n) * Sign(b.n)))
    ELSE IF a.t = "tiny" /\ b.t = "tiny" THEN Fin(0, 1)
    ELSE IF a.t = "tiny" \/ b.t = "tiny" THEN Tiny(a.n * b.n, a.d * b.d)
    ELSE LET g1 == GCD(Abs(a.n), b.d)
             g2 == GCD(Abs(b.n), a.d)
         IN  Fin((a.n \div g1) * (b.n \div g2), (a.d \div g2) * (b.d \div g1))

\* a / b of two floats (x/0 is +-inf or NaN, as numpy float division gives);
\* the divisor is never tiny: no flux of the inputs is
FDiv(a, b) ==
    IF a.t = "nan" \/ b.t = "nan" THEN NaN
    ELSE IF b.t = "inf" THEN (IF a.t = "inf" THEN NaN ELSE Fin(0, 1))
    ELSE IF b.n = 0 THEN (IF a.n = 0 THEN NaN ELSE Inf(Sign(a.n)))
    ELSE IF a.t = "inf" THEN Inf(Sign(a.n) * Sign(b.n))
    ELSE FMul(a, Fin(Sign(b.n) * b.d, Abs(b.n)))

\* a ** 0.5 of a non-negative value, kept exact as a "root" record
FSqrt(a) ==
    IF a.t = "fin" /\ a.n >= 0 THEN [t |-> "root", n |-> a.n, d |-> a.d]
    ELSE IF a.t = "inf" /\ a.n > 0 THEN a
    ELSE NaN

\* k * r for an integer-valued float k and r = FSqrt(..)
FScaleRoot(k, r) ==
    IF r.t = "nan" THEN NaN
    ELSE IF r.t = "inf" THEN (IF k = 0 THEN NaN ELSE Inf(Sign(k)))
    ELSE LET q == FMul(Fin(k * k, 1), Fin(r.n, r.d))
         IN  [t |-> IF k < 0 /\ q.n > 0 THEN "nroot" ELSE "root", n |-> q.n, d |-> q.d]

RECURSIVE FSum(_)
FSum(s) == IF s = <<>> THEN Fin(0, 1) ELSE FAdd(Head(s), FSum(Tail(s)))

\* numpy.mean: NaN for an empty array (0/0), NaN if any element is NaN
FMean(s) == FDiv(FSum(s), Fin(Len(s), 1))

Squares(s) == [k \in 1..Len(s) |-> FMul(s[k], s[k])]

\* numpy.mean(diffs**2)**0.5
Rms(diffs) == FSqrt(FMean(Squares(diffs)))

\* fabs(a) < lim in place of <=
FabsLess(a, lim) ==
    IF a.t = "nan" \/ lim.t = "nan" THEN FALSE
    ELSE IF lim.t = "inf" THEN lim.n > 0 /\ a.t # "inf"
    ELSE IF a.t = "inf" THEN FALSE
    ELSE IF lim.t = "nroot" THEN FALSE
    ELSE IF a.t = "tiny" THEN lim.n > 0
    ELSE LET g == GCD(a.d * a.d, lim.d)
         IN  (a.n * a.n) * (lim.d \div g) < lim.n * ((a.d * a.d) \div g)

\* numpy.fabs(a) <= lim, lim a root / nroot / inf / NaN; false when either is NaN
FabsLeq(a, lim) ==
    IF a.t = "nan" \/ lim.t = "nan" THEN FALSE
    ELSE IF lim.t = "inf" THEN lim.n > 0
    ELSE IF a.t = "inf" THEN FALSE
    ELSE IF lim.t = "nroot" THEN FALSE
    ELSE IF a.t = "tiny" THEN lim.n > 0
    ELSE LET g == GCD(a.d * a.d, lim.d)
         IN  (a.n * a.n) * (lim.d \div g) <= lim.n * ((a.d * a.d) \div g)

\* the masked elements taken last to first
RECURSIVE CompressReversed(_, _)
CompressReversed(s, keep) ==
    IF s = <<>> THEN <<>>
    ELSE CompressReversed(Tail(s), Tail(keep)) \o (IF Head(keep) THEN <<Head(s)>> ELSE <<>>)

\* boolean-mask indexing s[keep]
RECURSIVE Compress(_, _)
Compress(s, keep) ==
    IF s = <<>> THEN <<>>
    ELSE (IF Head(keep) THEN <<Head(s)>> ELSE <<>>) \o Compress(Tail(s), Tail(keep))

Range(s) == {s[k] : k \in DOMAIN s}

(* ------------------------------- state -------------------------------- *)
VARIABLES
    config,       \* MeasureApCorrConfig: minDegreesOfFreedom, numIter, numSigmaClip, allowFailure, fitConfig
    toCorrect,    \* self.toCorrect, as the sequence of names its items() yields
    catalog0,     \* the catalog as run() received it (history, never written)
    catalog,      \* the SourceCatalog: a sequence of records
    pc,           \* position of run()
    fieldIdx,     \* position of the outer loop in toCorrect
    subset1,      \* catalog indices of the selected, reference-valid records
    subset2,      \* catalog indices of the records kept for the current field
    ctrl,         \* the fit control (orderX, orderY, triangular)
    x, y, apCorrData, indices,   \* the working arrays
    iter,         \* _i, the number of clip iterations done
    numFits,      \* the calls of ChebyshevBoundedField.fit made for the current field (history)
    apCorrField,  \* the last fitted surface
    apCorrDiffs,  \* the residuals of the last loop fit
    apCorrErr,    \* the local apCorrErr; Unbound until first assigned
    apCorrMap,    \* the output map
    error,        \* the exception that ended run(), if any
    log           \* what run() logged, in order

vars == <<config, toCorrect, catalog0, catalog, pc, fieldIdx, subset1, subset2, ctrl, x, y,
          apCorrData, indices, iter, numFits, apCorrField, apCorrDiffs, apCorrErr,
          apCorrMap, error, log>>

\* the registered flux fields, self.toCorrect.keys()
Psf == "base_PsfFlux"

Gauss == "base_GaussianFlux"

Fields == {Psf, Gauss}

\* a local that no statement has assigned yet
Unbound == [t |-> "unbound", n |-> 0, d |-> 1]

NoError == [type |-> "none", name |-> "", count |-> 0, required |-> 0]

\* ChebyshevBoundedField: c + sx * x + sy * y, of degree (orderX, orderY)
Surface(ox, oy, c, sx, sy) == [orderX |-> ox, orderY |-> oy, c |-> c, sx |-> sx, sy |-> sy]

NoSurface == Surface(0, 0, Unbound, 0, 0)

\* apCorrField.evaluate at one point, in floating point (0 * NaN is NaN)
Evaluate(s, px, py) ==
    FAdd(FAdd(s.c, FMul(Fin(s.sx, 1), px)), FMul(Fin(s.sy, 1), py))

EvaluateAll(s, xs, ys) == [k \in 1..Len(xs) |-> Evaluate(s, xs[k], ys[k])]

\* ctrl.computeSize(): the number of free parameters of the degree
ComputeSize(c) ==
    LET lo == IF c.orderX < c.orderY THEN c.orderX ELSE c.orderY
        hi == IF c.orderX < c.orderY THEN c.orderY ELSE c.orderX
    IN  IF c.triangular
        THEN ((lo + 1) * (lo + 2)) \div 2 + (lo + 1) * (hi - lo)
        ELSE (c.orderX + 1) * (c.orderY + 1)

(* ------------------------------- inputs ------------------------------- *)
\* a catalog record before its position is known
Kind(sel, ref, refFlag, fluxP, flagP, fluxG, flagG, xnan, usedG) ==
    [selected |-> sel, refFlux |-> ref, refFlag |-> refFlag,
     flux |-> [f \in Fields |-> IF f = Psf THEN fluxP ELSE fluxG],
     flag |-> [f \in Fields |-> IF f = Psf THEN flagP ELSE flagG],
     xnan |-> xnan,
     used |-> [f \in Fields |-> f = Gauss /\ usedG]]

Four == Fin(4, 1)

\* usable for both fields: ratio 1 for base_PsfFlux, 2 for base_GaussianFlux
Good == Kind(TRUE, Four, FALSE, Fin(4, 1), FALSE, Fin(2, 1), FALSE, FALSE, FALSE)

\* base_GaussianFlux flagged, and its "used" flag left set by an earlier run
GaussFlagged == Kind(TRUE, Four, FALSE, Fin(2, 1), FALSE, Fin(2, 1), TRUE, FALSE, TRUE)

\* ratio 4 for base_PsfFlux, 1 for base_GaussianFlux
Outlier == Kind(TRUE, Four, FALSE, Fin(1, 1), FALSE, Fin(4, 1), FALSE, FALSE, FALSE)

\* not chosen by the source selector
Unselected == Kind(FALSE, Four, FALSE, Fin(4, 1), FALSE, Fin(2, 1), FALSE, FALSE, FALSE)

\* reference flux NaN
RefNaN == Kind(TRUE, NaN, FALSE, Fin(4, 1), FALSE, Fin(2, 1), FALSE, FALSE, FALSE)

\* base_PsfFlux flux 0
PsfZero == Kind(TRUE, Four, FALSE, Fin(0, 1), FALSE, Fin(2, 1), FALSE, FALSE, FALSE)

\* usable, at a position whose x is NaN
XNaN == Kind(TRUE, Four, FALSE, Fin(4, 1), FALSE, Fin(2, 1), FALSE, TRUE, FALSE)

PolicyKinds == {Good, GaussFlagged, Outlier, Unselected, RefNaN, PsfZero}

LoopKinds == {Good, Outlier, XNaN}

\* the record of kind k at catalog position i
Place(k, i) ==
    [selected |-> k.selected, refFlux |-> k.refFlux, refFlag |-> k.refFlag,
     flux |-> k.flux, flag |-> k.flag, used |-> k.used,
     x |-> IF k.xnan THEN NaN ELSE Fin(i, 1), y |-> Fin(i % 2, 1)]

Catalogs(kinds, maxLen) ==
    UNION { { [i \in 1..len |-> Place(ks[i], i)] : ks \in [1..len -> kinds] } : len \in 0..maxLen }

Config(m, numIter, clip, allow, ox, oy, tri) ==
    [minDegreesOfFreedom |-> m, numIter |-> numIter, numSigmaClip |-> clip,
     allowFailure |-> allow,
     fitConfig |-> [orderX |-> ox, orderY |-> oy, triangular |-> tri]]

Orders == { <<Psf, Gauss>>, <<Gauss, Psf>> }

\* the state run() starts in, for a given configuration, registry order and catalog
Start(cfg, order, cat) ==
    /\ config = cfg
    /\ toCorrect = order
    /\ catalog0 = cat
    /\ catalog = cat
    /\ pc = "select"
    /\ fieldIdx = 1
    /\ subset1 = <<>>
    /\ subset2 = <<>>
    /\ ctrl = cfg.fitConfig
    /\ x = <<>>
    /\ y = <<>>
    /\ apCorrData = <<>>
    /\ indices = <<>>
    /\ iter = 0
    /\ numFits = 0
    /\ apCorrField = NoSurface
    /\ apCorrDiffs = <<>>
    /\ apCorrErr = Unbound
    /\ apCorrMap = <<>>
    /\ error = NoError
    /\ log = <<>>

\* the minimum sample policy in all its cases, on every catalog
InitPolicy ==
    \E m \in 1..MaxMinDof, allow \in SUBSET Fields, order \in Orders,
       cat \in Catalogs(PolicyKinds, MaxRecords) :
        Start(Config(m, 1, 1, allow, 0, 0, TRUE), order, cat)

\* the fit loop in all its configurations, on the catalogs whose records are usable
InitLoop ==
    \E numIter \in 0..MaxNumIter, clip \in {0, 1},
       o \in {<<0, 0>>, <<MaxOrder, 0>>, <<0, MaxOrder>>},
       cat \in Catalogs(LoopKinds, MaxRecords) :
        Start(Config(1, numIter, clip, {Gauss}, o[1], o[2], TRUE), <<Psf, Gauss>>, cat)

\* the end-to-end scenario: flat ratio 1.02 with one outlier of ratio 5.0
ScenFlat == Kind(TRUE, Fin(102, 1), FALSE, Fin(100, 1), FALSE, Fin(100, 1), TRUE, FALSE, FALSE)

ScenOutlier == Kind(TRUE, Fin(500, 1), FALSE, Fin(100, 1), FALSE, Fin(100, 1), TRUE, FALSE, FALSE)

ScenCatalog(flat, p) ==
    [i \in 1..(flat + 1) |-> Place(IF i = p THEN ScenOutlier ELSE ScenFlat, i)]

\* 9 or 10 flat points and the outlier at any place, numSigmaClip 3, degree (0,0)
InitScenario ==
    \E flat \in {9, 10}, p \in 1..11, numIter \in 1..MaxNumIter :
        /\ p <= flat + 1
        /\ Start(Config(1, numIter, 3, {Gauss}, 0, 0, TRUE), <<Psf, Gauss>>,
                 ScenCatalog(flat, p))

\* g records usable for both fields, then f usable for base_PsfFlux only
DegreeCatalog(g, f) ==
    [i \in 1..(g + f) |-> Place(IF i <= g THEN Good ELSE GaussFlagged, i)]

\* the degree adaptation from every configured degree, triangular or not
InitDegree ==
    \E m \in 1..MaxMinDof, ox \in 0..MaxDegree, oy \in 0..MaxDegree, tri \in BOOLEAN,
       g \in 0..MaxRecords, f \in 0..MaxRecords :
        /\ g + f <= MaxRecords
        /\ Start(Config(m, 1, 0, {Gauss}, ox, oy, tri), <<Psf, Gauss>>, DegreeCatalog(g, f))

\* reference flux +inf
RefInf == Kind(TRUE, Inf(1), FALSE, Fin(4, 1), FALSE, Fin(2, 1), FALSE, FALSE, FALSE)

\* reference flux flagged
RefFlagged == Kind(TRUE, Four, TRUE, Fin(4, 1), FALSE, Fin(2, 1), FALSE, FALSE, FALSE)

\* base_PsfFlux flux negative, NaN, +inf, or flagged
PsfNegative == Kind(TRUE, Four, FALSE, Fin(-4, 1), FALSE, Fin(2, 1), FALSE, FALSE, FALSE)

PsfNaN == Kind(TRUE, Four, FALSE, NaN, FALSE, Fin(2, 1), FALSE, FALSE, FALSE)

PsfInf == Kind(TRUE, Four, FALSE, Inf(1), FALSE, Fin(2, 1), FALSE, FALSE, FALSE)

PsfFlagged == Kind(TRUE, Four, FALSE, Fin(4, 1), TRUE, Fin(2, 1), FALSE, FALSE, FALSE)

\* usable for base_PsfFlux only: ratio 1 with base_GaussianFlux flagged, and
\* ratio -1 (a negative reference flux) with base_GaussianFlux flux NaN
PsfOnly == Kind(TRUE, Four, FALSE, Fin(4, 1), FALSE, Fin(2, 1), TRUE, FALSE, FALSE)

PsfOnlyNegative == Kind(TRUE, Fin(-4, 1), FALSE, Fin(4, 1), FALSE, NaN, FALSE, FALSE, FALSE)

RefInvalidKinds == {Unselected, RefNaN, RefInf, RefFlagged}

PsfInvalidKinds == {PsfZero, PsfNegative, PsfNaN, PsfInf, PsfFlagged}

FilterKinds == {PsfOnly, PsfOnlyNegative} \cup RefInvalidKinds \cup PsfInvalidKinds

\* the catalogs of up to MaxRecords + 1 records with at most one record left out
\* by each filter, at any place among the records that pass both
FilterCatalogs ==
    LET few(ks, kinds) == Cardinality({i \in DOMAIN ks : ks[i] \in kinds}) <= 1
    IN  UNION { { [i \in 1..len |-> Place(ks[i], i)] :
                    ks \in {k \in [1..len -> FilterKinds] :
                               few(k, RefInvalidKinds) /\ few(k, PsfInvalidKinds)} } :
                len \in 0..(MaxRecords + 1) }

\* the two filters on every such mix of valid and invalid records
InitFilter ==
    \E cat \in FilterCatalogs :
        Start(Config(1, 1, 0, {Gauss}, 1, 0, TRUE), <<Psf, Gauss>>, cat)

\* a reference flux so small that the ratio is tiny: 1 and 3 tiny units for
\* base_PsfFlux; base_GaussianFlux flagged
TinyOne == Kind(TRUE, Tiny(4, 1), FALSE, Fin(4, 1), FALSE, Fin(2, 1), TRUE, FALSE, FALSE)

TinyThree == Kind(TRUE, Tiny(12, 1), FALSE, Fin(4, 1), FALSE, Fin(2, 1), TRUE, FALSE, FALSE)

\* the fit loop on ratios whose residuals are finite and whose squares underflow
InitUnderflow ==
    \E numIter \in 1..MaxNumIter, clip \in {1, 3}, ox \in {0, 1},
       cat \in Catalogs({TinyOne, TinyThree}, MaxRecords) :
        Start(Config(1, numIter, clip, {Gauss}, ox, 0, TRUE), <<Psf, Gauss>>, cat)

(* ----------------------------- operations ----------------------------- *)
IndexSeq(n) == [i \in 1..n |-> i]

\* name of the field the outer loop is at
CurName == toCorrect[fieldIdx]

\* line 209-211: the selector's records with a finite, unflagged reference flux
Subset1(cat) ==
    LET ok(i) == cat[i].selected /\ ~cat[i].refFlag /\ IsFinite(cat[i].refFlux)
    IN  SelectSeq(IndexSeq(Len(cat)), ok)

\* isGood without the test fluxes > 0.0
IsGoodAnySign(rec, name) ==
    /\ ~rec.flag[name]
    /\ IsFinite(rec.flux[name])

\* line 222-228: isGood for one record of subset1
IsGood(rec, name) ==
    /\ ~rec.flag[name]
    /\ IsFinite(rec.flux[name])
    /\ GtZero(rec.flux[name])

\* line 229
Subset2(cat, s1, name) ==
    LET good(i) == IsGood(cat[i], name)
    IN  SelectSeq(s1, good)

\* the test with the sample itself, not the sample less one, held against the minimum
TooFewOffByOne(n, m) == n < m

\* line 233: the minimum sample test
TooFew(n, m) == n - 1 < m

\* the message giving the configured minimum, not the count required
InsufficientErrorWrongCount(name, n, m) ==
    [type |-> "RuntimeError", name |-> name, count |-> n, required |-> m]

\* line 239-241: the RuntimeError, with the values its message is formatted from
InsufficientError(name, n, m) ==
    [type |-> "RuntimeError", name |-> name, count |-> n, required |-> m + 1]

\* line 235-237: the warning, with the values its message is formatted from
InsufficientWarning(name, n, m) ==
    [level |-> "warn", name |-> name, count |-> n, value |-> Fin(m + 1, 1)]

\* line 245: the test of the degree adaptation loop
UnderDetermined(n, c, m) == n - ComputeSize(c) < m

\* the pass with the test on orderY left out: only orderX is lowered
LowerOrderXOnly(c) ==
    [c EXCEPT !.orderX = IF c.orderX > 0 THEN c.orderX - 1 ELSE c.orderX]

\* line 246-249: one pass of the loop body
LowerOrder(c) ==
    [c EXCEPT !.orderX = IF c.orderX > 0 THEN c.orderX - 1 ELSE c.orderX,
              !.orderY = IF c.orderY > 0 THEN c.orderY - 1 ELSE c.orderY]

\* line 259: the ratio fitted for one record
Ratio(rec, name) == FDiv(rec.refFlux, rec.flux[name])

\* the constant terms and slopes a fitted surface of degree above (0,0) is drawn from
CandConsts == {Fin(1, 1)}

Slopes == {0, 1}

Residuals(s, xs, ys, data) ==
    [k \in 1..Len(data) |-> FSub(Evaluate(s, xs[k], ys[k]), data[k])]

\* ChebyshevBoundedField.fit: the surfaces the least-squares primitive may return.
\* At degree (0,0) the least-squares solution is the mean of the data; at a higher
\* degree it is a surface through all the data when one exists, and otherwise is
\* left open.
Fit(xs, ys, data, c) ==
    IF c.orderX = 0 /\ c.orderY = 0
    THEN {Surface(0, 0, FMean(data), 0, 0)}
    ELSE LET cands == {Surface(c.orderX, c.orderY, k, sx, sy) :
                         k \in CandConsts,
                         sx \in (IF c.orderX > 0 THEN Slopes ELSE {0}),
                         sy \in (IF c.orderY > 0 THEN Slopes ELSE {0})}
             exact == {s \in cands :
                         \A k \in 1..Len(data) :
                             FSub(Evaluate(s, xs[k], ys[k]), data[k]) = Fin(0, 1)}
         IN  IF exact # {} THEN exact ELSE cands

\* the limit with numSigmaClip left out
DiffLimOneSigma(clip, err) == FScaleRoot(1, err)

\* line 276: the clip limit
DiffLim(clip, err) == FScaleRoot(clip, err)

\* line 278: keep, one boolean per working point
Keep(diffs, lim) == [k \in 1..Len(diffs) |-> FabsLeq(diffs[k], lim)]

\* apCorrMap[key] = surface
MapSet(m, key, s) == [k \in (DOMAIN m) \cup {key} |-> IF k = key THEN s ELSE m[k]]

FluxName(name) == name \o "_instFlux"

FluxErrName(name) == name \o "_instFluxErr"

\* the error surface given the degree of the control instead of degree 0
ErrSurfaceAtFitDegree(err, c) == Surface(c.orderX, c.orderY, err, 0, 0)

\* line 299: ChebyshevBoundedField(bbox, [[apCorrErr]])
ErrSurface(err, c) == Surface(0, 0, err, 0, 0)

\* line 297-299: the two entries stored for a field
StoreEntries(m, name, field, err, c) ==
    MapSet(MapSet(m, FluxName(name), field), FluxErrName(name), ErrSurface(err, c))

\* the flag written on every record: set on the records used, cleared on the rest
MarkedOrCleared(cat, s2, idx, name) ==
    [r \in 1..Len(cat) |->
        [cat[r] EXCEPT !.used[name] = \E k \in 1..Len(idx) : s2[idx[k] + 1] = r]]

\* the loop running over range(len(indices)) instead of over indices
MarkedByPosition(cat, s2, idx, name) ==
    [r \in 1..Len(cat) |->
        IF \E k \in 1..Len(idx) : s2[k] = r
        THEN [cat[r] EXCEPT !.used[name] = TRUE]
        ELSE cat[r]]

\* line 302-303: the catalog with the records subset2[i], i in indices, marked
Marked(cat, s2, idx, name) ==
    [r \in 1..Len(cat) |->
        IF \E k \in 1..Len(idx) : s2[idx[k] + 1] = r
        THEN [cat[r] EXCEPT !.used[name] = TRUE]
        ELSE cat[r]]

(* ------------------------------- actions ------------------------------ *)
\* line 207-213
SelectStars ==
    /\ pc = "select"
    /\ subset1' = Subset1(catalog)
    /\ apCorrMap' = <<>>
    /\ pc' = "field"
    /\ UNCHANGED <<config, numFits, toCorrect, catalog0, catalog, fieldIdx, subset2, ctrl, x, y, apCorrData,
                   indices, iter, apCorrField, apCorrDiffs, apCorrErr, error, log>>

\* the narrowing applied to the previous field's subset2 instead of subset1
NarrowCumulative ==
    /\ pc = "field"
    /\ fieldIdx <= Len(toCorrect)
    /\ subset2' = Subset2(catalog, IF fieldIdx = 1 THEN subset1 ELSE subset2, CurName)
    /\ numFits' = 0
    /\ pc' = "check"
    /\ UNCHANGED <<config, toCorrect, catalog0, catalog, fieldIdx, subset1, ctrl, x, y,
                   apCorrData, indices, iter, apCorrField, apCorrDiffs, apCorrErr,
                   apCorrMap, error, log>>

\* line 216-229: the outer loop takes the next field and narrows subset1 for it
Narrow ==
    /\ pc = "field"
    /\ fieldIdx <= Len(toCorrect)
    /\ subset2' = Subset2(catalog, subset1, CurName)
    /\ numFits' = 0
    /\ pc' = "check"
    /\ UNCHANGED <<config, toCorrect, catalog0, catalog, fieldIdx, subset1, ctrl, x, y, apCorrData,
                   indices, iter, apCorrField, apCorrDiffs, apCorrErr, apCorrMap, error, log>>

\* the allowFailure test left out: the field that may fail raises all the same
SkipFieldRaises ==
    /\ pc = "check"
    /\ TooFew(Len(subset2), config.minDegreesOfFreedom)
    /\ CurName \in config.allowFailure
    /\ error' = InsufficientError(CurName, Len(subset2), config.minDegreesOfFreedom)
    /\ pc' = "aborted"
    /\ UNCHANGED <<config, numFits, toCorrect, catalog0, catalog, fieldIdx, subset1, subset2, ctrl, x,
                   y, apCorrData, indices, iter, apCorrField, apCorrDiffs, apCorrErr,
                   apCorrMap, log>>

\* line 233-238: too few points, the field may fail: warn and continue
SkipField ==
    /\ pc = "check"
    /\ TooFew(Len(subset2), config.minDegreesOfFreedom)
    /\ CurName \in config.allowFailure
    /\ log' = Append(log, InsufficientWarning(CurName, Len(subset2),
                                               config.minDegreesOfFreedom))
    /\ fieldIdx' = fieldIdx + 1
    /\ pc' = "field"
    /\ UNCHANGED <<config, numFits, toCorrect, catalog0, catalog, subset1, subset2, ctrl, x, y, apCorrData,
                   indices, iter, apCorrField, apCorrDiffs, apCorrErr, apCorrMap, error>>

\* line 233, 239-241: too few points for a required field: RuntimeError
RaiseInsufficient ==
    /\ pc = "check"
    /\ TooFew(Len(subset2), config.minDegreesOfFreedom)
    /\ CurName \notin config.allowFailure
    /\ error' = InsufficientError(CurName, Len(subset2), config.minDegreesOfFreedom)
    /\ pc' = "aborted"
    /\ UNCHANGED <<config, numFits, toCorrect, catalog0, catalog, fieldIdx, subset1, subset2, ctrl, x, y,
                   apCorrData, indices, iter, apCorrField, apCorrDiffs, apCorrErr,
                   apCorrMap, log>>

\* line 233, 244: enough points; the control starts at the configured degree
PassCheck ==
    /\ pc = "check"
    /\ ~TooFew(Len(subset2), config.minDegreesOfFreedom)
    /\ ctrl' = config.fitConfig
    /\ pc' = "adapt"
    /\ UNCHANGED <<config, numFits, toCorrect, catalog0, catalog, fieldIdx, subset1, subset2, x, y, apCorrData,
                   indices, iter, apCorrField, apCorrDiffs, apCorrErr, apCorrMap, error, log>>

\* line 245-249: one iteration of the degree adaptation
AdaptStep ==
    /\ pc = "adapt"
    /\ UnderDetermined(Len(subset2), ctrl, config.minDegreesOfFreedom)
    /\ ctrl' = LowerOrder(ctrl)
    /\ UNCHANGED <<config, numFits, toCorrect, catalog0, catalog, pc, fieldIdx, subset1, subset2, x, y,
                   apCorrData, indices, iter, apCorrField, apCorrDiffs, apCorrErr,
                   apCorrMap, error, log>>

\* line 245, 252-259: the adaptation ends and the working arrays are filled
FillArrays ==
    /\ pc = "adapt"
    /\ ~UnderDetermined(Len(subset2), ctrl, config.minDegreesOfFreedom)
    /\ x' = [n \in 1..Len(subset2) |-> catalog[subset2[n]].x]
    /\ y' = [n \in 1..Len(subset2) |-> catalog[subset2[n]].y]
    /\ apCorrData' = [n \in 1..Len(subset2) |-> Ratio(catalog[subset2[n]], CurName)]
    /\ indices' = [n \in 1..Len(subset2) |-> n - 1]
    /\ iter' = 0
    /\ pc' = "loop"
    /\ UNCHANGED <<config, numFits, toCorrect, catalog0, catalog, fieldIdx, subset1, subset2, ctrl,
                   apCorrField, apCorrDiffs, apCorrErr, apCorrMap, error, log>>

\* line 261-264: the fit of one clip iteration
FitIter ==
    /\ pc = "loop"
    /\ iter < config.numIter
    /\ \E s \in Fit(x, y, apCorrData, ctrl) : apCorrField' = s
    /\ numFits' = numFits + 1
    /\ pc' = "resid"
    /\ UNCHANGED <<config, toCorrect, catalog0, catalog, fieldIdx, subset1, subset2, ctrl, x, y,
                   apCorrData, indices, iter, apCorrDiffs, apCorrErr, apCorrMap, error, log>>

\* line 264, 285: the fit primitive, given no point at all, may raise
FitFails ==
    /\ pc = "loop"
    /\ Len(x) = 0
    /\ error' = [type |-> "FitError", name |-> CurName, count |-> 0, required |-> 0]
    /\ pc' = "aborted"
    /\ UNCHANGED <<config, numFits, toCorrect, catalog0, catalog, fieldIdx, subset1, subset2, ctrl, x, y,
                   apCorrData, indices, iter, apCorrField, apCorrDiffs, apCorrErr,
                   apCorrMap, log>>

\* line 271-273: residuals and their RMS
ComputeErr ==
    /\ pc = "resid"
    /\ apCorrDiffs' = Residuals(apCorrField, x, y, apCorrData)
    /\ apCorrErr' = Rms(Residuals(apCorrField, x, y, apCorrData))
    /\ pc' = "clip"
    /\ UNCHANGED <<config, numFits, toCorrect, catalog0, catalog, fieldIdx, subset1, subset2, ctrl, x, y,
                   apCorrData, indices, iter, apCorrField, apCorrMap, error, log>>

\* line 282 left out: the index array is not clipped with the others
ClipKeepsIndices ==
    /\ pc = "clip"
    /\ LET keep == Keep(apCorrDiffs, DiffLim(config.numSigmaClip, apCorrErr))
       IN  /\ x' = Compress(x, keep)
           /\ y' = Compress(y, keep)
           /\ apCorrData' = Compress(apCorrData, keep)
    /\ iter' = iter + 1
    /\ pc' = "loop"
    /\ UNCHANGED <<config, numFits, toCorrect, catalog0, catalog, fieldIdx, subset1, subset2, ctrl,
                   indices, apCorrField, apCorrDiffs, apCorrErr, apCorrMap, error, log>>

\* line 276-282: clip the points beyond numSigmaClip * RMS
Clip ==
    /\ pc = "clip"
    /\ LET keep == Keep(apCorrDiffs, DiffLim(config.numSigmaClip, apCorrErr))
       IN  /\ x' = Compress(x, keep)
           /\ y' = Compress(y, keep)
           /\ apCorrData' = Compress(apCorrData, keep)
           /\ indices' = Compress(indices, keep)
    /\ iter' = iter + 1
    /\ pc' = "loop"
    /\ UNCHANGED <<config, numFits, toCorrect, catalog0, catalog, fieldIdx, subset1, subset2, ctrl,
                   apCorrField, apCorrDiffs, apCorrErr, apCorrMap, error, log>>

\* line 285 left out: the surface of the last loop iteration is kept and logged
FinalFitLeftOut ==
    /\ pc = "loop"
    /\ iter >= config.numIter
    /\ log' = Append(log, [level |-> "info", name |-> CurName, count |-> Len(indices),
                           value |-> Rms(Residuals(apCorrField, x, y, apCorrData))])
    /\ pc' = "store"
    /\ UNCHANGED <<config, numFits, toCorrect, catalog0, catalog, fieldIdx, subset1, subset2,
                   ctrl, x, y, apCorrData, indices, iter, apCorrField, apCorrDiffs,
                   apCorrErr, apCorrMap, error>>

\* line 285-288: the fit after the loop, and the RMS it logs
FinalFit ==
    /\ pc = "loop"
    /\ iter >= config.numIter
    /\ \E s \in Fit(x, y, apCorrData, ctrl) :
        /\ apCorrField' = s
        /\ log' = Append(log, [level |-> "info", name |-> CurName, count |-> Len(indices),
                               value |-> Rms(Residuals(s, x, y, apCorrData))])
    /\ numFits' = numFits + 1
    /\ pc' = "store"
    /\ UNCHANGED <<config, toCorrect, catalog0, catalog, fieldIdx, subset1, subset2, ctrl, x, y,
                   apCorrData, indices, iter, apCorrDiffs, apCorrErr, apCorrMap, error>>

\* line 297-299: the two map entries; line 298 reads the local apCorrErr
Store ==
    /\ pc = "store"
    /\ IF apCorrErr = Unbound
       THEN /\ apCorrMap' = MapSet(apCorrMap, FluxName(CurName), apCorrField)
            /\ error' = [type |-> "UnboundLocalError", name |-> CurName, count |-> 0,
                         required |-> 0]
            /\ pc' = "aborted"
       ELSE /\ apCorrMap' = StoreEntries(apCorrMap, CurName, apCorrField, apCorrErr, ctrl)
            /\ error' = error
            /\ pc' = "mark"
    /\ UNCHANGED <<config, numFits, toCorrect, catalog0, catalog, fieldIdx, subset1, subset2, ctrl, x, y,
                   apCorrData, indices, iter, apCorrField, apCorrDiffs, apCorrErr, log>>

\* line 302-303, then the outer loop moves on
MarkUsed ==
    /\ pc = "mark"
    /\ catalog' = Marked(catalog, subset2, indices, CurName)
    /\ fieldIdx' = fieldIdx + 1
    /\ pc' = "field"
    /\ UNCHANGED <<config, numFits, toCorrect, catalog0, subset1, subset2, ctrl, x, y, apCorrData, indices,
                   iter, apCorrField, apCorrDiffs, apCorrErr, apCorrMap, error, log>>

\* line 305-307
Return ==
    /\ pc = "field"
    /\ fieldIdx > Len(toCorrect)
    /\ pc' = "done"
    /\ UNCHANGED <<config, numFits, toCorrect, catalog0, catalog, fieldIdx, subset1, subset2, ctrl, x, y,
                   apCorrData, indices, iter, apCorrField, apCorrDiffs, apCorrErr,
                   apCorrMap, error, log>>

Init == InitPolicy \/ InitLoop \/ InitScenario

Next ==
    \/ SelectStars
    \/ Narrow
    \/ SkipField
    \/ RaiseInsufficient
    \/ PassCheck
    \/ AdaptStep
    \/ FillArrays
    \/ FitIter
    \/ FitFails
    \/ ComputeErr
    \/ Clip
    \/ FinalFit
    \/ Store
    \/ MarkUsed
    \/ Return

Spec == Init /\ [][Next]_vars

SpecFilter == InitFilter /\ [][Next]_vars

SpecUnderflow == InitUnderflow /\ [][Next]_vars

\* the while loop of line 245 is sequential code: its body runs while its test
\* holds and the statement after it runs once the test fails
SpecDegree == InitDegree /\ [][Next]_vars /\ WF_vars(AdaptStep) /\ WF_vars(FillArrays)

(* ------------------------------- claims ------------------------------- *)
\* the records of the catalog that pass the selection and the narrowing for field f
Usable(f) ==
    {r \in 1..Len(catalog) :
        /\ catalog[r].selected /\ ~catalog[r].refFlag /\ catalog[r].refFlux.t = "fin"
        /\ ~catalog[r].flag[f] /\ catalog[r].flux[f].t = "fin" /\ catalog[r].flux[f].n > 0}

\* run() has done nothing yet for field f: no map entry, no log line, no flag changed
Untouched(f) ==
    /\ FluxName(f) \notin DOMAIN apCorrMap
    /\ FluxErrName(f) \notin DOMAIN apCorrMap
    /\ \A k \in 1..Len(log) : log[k].name # f \/ log[k].level = "warn"
    /\ \A r \in 1..Len(catalog) : catalog[r].used[f] = catalog0[r].used[f]

AtCheck == pc = "check"

Required == CurName \notin config.allowFailure

MinDof == config.minDegreesOfFreedom

\* C1 as stated: for a field not in allowFailure, exactly minDegreesOfFreedom
\* surviving records never raise the insufficient-data error, and exactly
\* minDegreesOfFreedom - 1 always raise it.
C1_AsStated ==
    [][(AtCheck /\ Required) =>
        /\ (Len(subset2) = MinDof => pc' # "aborted")
        /\ (Len(subset2) = MinDof - 1 => pc' = "aborted" /\ error'.type = "RuntimeError")]_vars

\* C1 amended: for a field not in allowFailure, exactly minDegreesOfFreedom + 1
\* surviving records never raise the insufficient-data error, and exactly
\* minDegreesOfFreedom (or fewer) always raise it.
C1_MinSampleBoundary ==
    [][(AtCheck /\ Required) =>
        /\ (Len(subset2) = MinDof + 1 => pc' # "aborted" /\ error' = NoError)
        /\ (Len(subset2) <= MinDof => pc' = "aborted" /\ error'.type = "RuntimeError")]_vars

\* a required field with exactly minDegreesOfFreedom (> 1) records has raised
C1_Witness ==
    /\ pc = "aborted"
    /\ error.type = "RuntimeError"
    /\ error.count = MinDof
    /\ MinDof > 1

\* C2: a field not in allowFailure that fails the minimum-sample check ends the
\* run with an error carrying the field name, the sample count and the required
\* count; the count is that of the full narrowed sample, and nothing (fit, clip,
\* map entry, log line, "used" flag) has been done for the field when it is raised.
C2_FatalInsufficient ==
    [][(AtCheck /\ Required /\ Len(subset2) - 1 < MinDof) =>
        /\ pc' = "aborted"
        /\ error'.type = "RuntimeError"
        /\ error'.name = CurName
        /\ error'.count = Cardinality(Usable(CurName))
        /\ error'.required = MinDof + 1
        /\ Untouched(CurName)
        /\ \A k \in 1..Len(log) : log[k].name # CurName
        /\ catalog' = catalog /\ apCorrMap' = apCorrMap /\ log' = log
        /\ apCorrField' = apCorrField /\ apCorrErr' = apCorrErr /\ x' = x]_vars

\* the second field processed raised, after the first was fitted and marked
C2_Witness ==
    /\ pc = "aborted"
    /\ error.type = "RuntimeError"
    /\ fieldIdx = 2
    /\ error.name = toCorrect[2]
    /\ FluxName(toCorrect[1]) \in DOMAIN apCorrMap
    /\ error.count > 0

\* the fields that were skipped with a warning
Skipped == {log[k].name : k \in {j \in 1..Len(log) : log[j].level = "warn"}}

\* C3: a field in allowFailure that fails the minimum-sample check raises no
\* error, is skipped entirely (control, working arrays, fit, map and flags are
\* left alone; a warning is logged) and the loop goes on to the next field; no
\* insufficient-data error is ever raised for such a field, and when the run
\* returns its map has no entry for it.
C3_SkipAllowed ==
    /\ [][(AtCheck /\ ~Required /\ Len(subset2) - 1 < MinDof) =>
            /\ pc' = "field"
            /\ fieldIdx' = fieldIdx + 1
            /\ error' = NoError
            /\ \A f \in Fields : f = CurName => Untouched(f)'
            /\ catalog' = catalog /\ apCorrMap' = apCorrMap
            /\ ctrl' = ctrl /\ x' = x /\ indices' = indices
            /\ apCorrField' = apCorrField /\ apCorrErr' = apCorrErr
            /\ Len(log') = Len(log) + 1
            /\ log'[Len(log')].level = "warn" /\ log'[Len(log')].name = CurName]_vars
    /\ [](error.type = "RuntimeError" => error.name \notin config.allowFailure)
    /\ [](pc = "done" => \A f \in Skipped : f \in config.allowFailure /\ Untouched(f))

\* the run returned a map after skipping the first field and fitting the second
C3_Witness ==
    /\ pc = "done"
    /\ toCorrect[1] \in Skipped
    /\ FluxName(toCorrect[2]) \in DOMAIN apCorrMap
    /\ FluxName(toCorrect[1]) \notin DOMAIN apCorrMap

\* a <= b for two finite values
FLeq(a, b) == FSub(b, a).n >= 0

Zero == Fin(0, 1)

RootZero == [t |-> "root", n |-> 0, d |-> 1]

\* the RMS that run() logged for field f after its terminal fit
LoggedRms(f) ==
    LET k == CHOOSE j \in 1..Len(log) : log[j].level = "info" /\ log[j].name = f
    IN  log[k].value

HasLoggedRms(f) == \E j \in 1..Len(log) : log[j].level = "info" /\ log[j].name = f

\* C4 as stated: the scalar stored in a fitted field's error surface is the RMS
\* of the residuals of the terminal fit over the final working set.
C4_AsStated ==
    pc = "mark" =>
        apCorrMap[FluxErrName(CurName)].c = Rms(Residuals(apCorrField, x, y, apCorrData))

\* the records marked for the field being completed
Survivors == {subset2[indices[k] + 1] : k \in 1..Len(indices)}

\* C5: marking a fitted field sets its "used" flag on the records of subset2 at
\* the indices left by the last clip, which are the records the final working
\* arrays hold, and on no other; from a catalog with no "used" flag of the field
\* set, the flagged records are exactly those; no other step changes a flag.
C5_UsedExact ==
    [][\A f \in Fields :
        IF pc = "mark" /\ f = CurName
        THEN /\ \A r \in 1..Len(catalog) :
                    catalog'[r].used[f] = (r \in Survivors \/ catalog[r].used[f])
             /\ (\A r \in 1..Len(catalog0) : ~catalog0[r].used[f]) =>
                    {r \in 1..Len(catalog) : catalog'[r].used[f]} = Survivors
             /\ Survivors \subseteq Usable(f)
             /\ Cardinality(Survivors) = Len(x)
             /\ Len(indices) = Len(x)
             /\ \A k \in 1..Len(indices) :
                    /\ catalog[subset2[indices[k] + 1]].x = x[k]
                    /\ catalog[subset2[indices[k] + 1]].y = y[k]
                    /\ FDiv(catalog[subset2[indices[k] + 1]].refFlux,
                            catalog[subset2[indices[k] + 1]].flux[f]) = apCorrData[k]
        ELSE \A r \in 1..Len(catalog) : catalog'[r].used[f] = catalog[r].used[f]]_vars

\* the first field was marked with one usable record clipped and another kept
C5_Witness ==
    /\ pc = "field"
    /\ fieldIdx = 2
    /\ \A r \in 1..Len(catalog0) : ~catalog0[r].used[toCorrect[1]]
    /\ \E r \in Usable(toCorrect[1]) : ~catalog[r].used[toCorrect[1]]
    /\ \E r \in Usable(toCorrect[1]) : catalog[r].used[toCorrect[1]]

\* the end-to-end scenario with `flat` points of ratio 1.02 and one of ratio 5.0
IsScenario(flat) ==
    /\ config.numSigmaClip = 3
    /\ config.minDegreesOfFreedom = 1
    /\ config.numIter >= 1
    /\ config.fitConfig.orderX = 0 /\ config.fitConfig.orderY = 0
    /\ Len(catalog0) = flat + 1
    /\ \E p \in 1..(flat + 1) : catalog0 = ScenCatalog(flat, p)

ScenarioResult ==
    /\ \A r \in 1..Len(catalog) :
          catalog[r].used[Psf] = (catalog[r].refFlux # Fin(500, 1))
    /\ FluxName(Psf) \in DOMAIN apCorrMap
    /\ apCorrMap[FluxName(Psf)] = Surface(0, 0, Fin(51, 50), 0, 0)
    /\ HasLoggedRms(Psf)
    /\ LoggedRms(Psf) = RootZero

\* C6 as stated: in the scenario the outlier is clipped, the surface is 1.02 and
\* the final RMS is 0, with 9 flat points and the outlier and with 10 and the outlier.
C6_AsStated ==
    /\ (IsScenario(9) \/ IsScenario(10)) => pc # "aborted"
    /\ (pc = "done" /\ (IsScenario(9) \/ IsScenario(10))) => ScenarioResult

\* C6 amended: in the scenario with 10 flat points and the outlier as an
\* eleventh, the run returns, the outlier is not marked "used" and every flat
\* point is, the surface is the constant 1.02 and the RMS of the terminal fit is 0.
C6_ScenarioEleven ==
    /\ IsScenario(10) => pc # "aborted"
    /\ (pc = "done" /\ IsScenario(10)) => ScenarioResult

\* the 11-point scenario has returned after two clip iterations
C6_Witness ==
    /\ pc = "done"
    /\ IsScenario(10)
    /\ config.numIter = 2
    /\ \E r \in 1..Len(catalog) : ~catalog[r].used[Psf]

\* C7: the returned map holds, for every registered field that passed the
\* minimum-sample check, its value entry and its error entry and nothing else;
\* it holds nothing for a skipped field; every error entry is a constant of
\* degree (0,0), whatever the degree of the value entry.
C7_MapEntries ==
    pc = "done" =>
        /\ DOMAIN apCorrMap =
              UNION { {FluxName(f), FluxErrName(f)} :
                        f \in {g \in Fields : Cardinality(Usable(g)) - 1 >= MinDof} }
        /\ \A f \in Skipped :
              FluxName(f) \notin DOMAIN apCorrMap /\ FluxErrName(f) \notin DOMAIN apCorrMap
        /\ \A f \in Fields : FluxErrName(f) \in DOMAIN apCorrMap =>
              /\ apCorrMap[FluxErrName(f)].orderX = 0
              /\ apCorrMap[FluxErrName(f)].orderY = 0
              /\ apCorrMap[FluxErrName(f)].sx = 0
              /\ apCorrMap[FluxErrName(f)].sy = 0
              /\ apCorrMap[FluxErrName(f)].c.t \in {"root", "nan"}

\* the run returned a value surface of degree above (0,0) for one field and
\* skipped or fitted the other
C7_Witness ==
    /\ pc = "done"
    /\ \E f \in Fields :
          /\ FluxName(f) \in DOMAIN apCorrMap
          /\ apCorrMap[FluxName(f)].orderX + apCorrMap[FluxName(f)].orderY > 0
          /\ apCorrMap[FluxErrName(f)].orderX = 0

\* the records usable for field f, in catalog order: its own narrowed data
OwnSample(f) ==
    LET usable(r) == r \in Usable(f)
    IN  SelectSeq(IndexSeq(Len(catalog)), usable)

\* k rounds of fit (the mean), residuals, RMS and clip on a working set w
RECURSIVE ClipRounds(_, _, _)
ClipRounds(w, k, clip) ==
    IF k = 0 THEN w
    ELSE LET mean == FMean(w.data)
             diffs == [i \in 1..Len(w.data) |->
                          FSub(FAdd(FAdd(mean, FMul(Zero, w.x[i])), FMul(Zero, w.y[i])),
                               w.data[i])]
             err   == Rms(diffs)
             keep  == [i \in 1..Len(diffs) |-> FabsLeq(diffs[i], FScaleRoot(clip, err))]
         IN  ClipRounds([x |-> Compress(w.x, keep), y |-> Compress(w.y, keep),
                         data |-> Compress(w.data, keep), idx |-> Compress(w.idx, keep),
                         err |-> err], k - 1, clip)

\* what a degree-(0,0) run on field f's own narrowed data gives, from that data alone
OwnOutcome(f) ==
    LET s2 == OwnSample(f)
        w0 == [x |-> [n \in 1..Len(s2) |-> catalog[s2[n]].x],
               y |-> [n \in 1..Len(s2) |-> catalog[s2[n]].y],
               data |-> [n \in 1..Len(s2) |->
                            FDiv(catalog[s2[n]].refFlux, catalog[s2[n]].flux[f])],
               idx |-> [n \in 1..Len(s2) |-> n],
               err |-> Unbound]
        w  == ClipRounds(w0, config.numIter, config.numSigmaClip)
    IN  [field |-> Surface(0, 0, FMean(w.data), 0, 0),
         err |-> w.err,
         used |-> {s2[w.idx[k]] : k \in 1..Len(w.idx)}]

\* what run() has produced for field f
Outcome(f) ==
    [field |-> apCorrMap[FluxName(f)],
     err |-> apCorrMap[FluxErrName(f)].c,
     used |-> {r \in 1..Len(catalog) : catalog[r].used[f] /\ ~catalog0[r].used[f]}]

\* run() has fitted, stored and marked field f
Completed(f) ==
    \E i \in 1..Len(toCorrect) : toCorrect[i] = f /\ i < fieldIdx /\ f \notin Skipped

\* field f has enough data of its own, and its own fit at degree (0,0) cannot fail
OwnDataSuffices(f) ==
    /\ Cardinality(Usable(f)) - 1 >= MinDof
    /\ config.fitConfig.orderX = 0 /\ config.fitConfig.orderY = 0
    /\ config.numIter >= 1
    /\ config.numSigmaClip >= 1
    /\ \A r \in Usable(f) : catalog[r].x.t = "fin"

\* C8 as stated: when the run ends, every field whose own data suffice has the
\* outcome its own data determine, whether or not another field was skipped or
\* failed its minimum-sample check.
C8_AsStated ==
    pc \in {"done", "aborted"} =>
        \A f \in Fields : OwnDataSuffices(f) => Completed(f) /\ Outcome(f) = OwnOutcome(f)

\* C8 amended: every field that run() has fitted, stored and marked (at degree
\* (0,0), where the fit is determined) has the value surface, error value and
\* newly marked records that its own narrowed data determine, in either order of
\* processing and whatever happened to the other field, between the fields and
\* when the run ends; and when the run returns, every field whose own data
\* suffice has been so completed.
C8_OwnDataDecides ==
    pc \in {"field", "done", "aborted"} =>
        /\ \A f \in Fields :
              (Completed(f) /\ apCorrMap[FluxName(f)].orderX = 0
                            /\ apCorrMap[FluxName(f)].orderY = 0) =>
                  Outcome(f) = OwnOutcome(f)
        /\ pc = "done" => \A f \in Fields : OwnDataSuffices(f) => Completed(f)

\* the second field processed was completed after the first was completed with
\* a different sample, one of its points clipped
C8_Witness ==
    /\ pc = "done"
    /\ Completed(toCorrect[1]) /\ Completed(toCorrect[2])
    /\ Usable(toCorrect[1]) # Usable(toCorrect[2])
    /\ apCorrMap[FluxName(toCorrect[2])].orderX = 0
    /\ apCorrMap[FluxName(toCorrect[2])].orderY = 0
    /\ Outcome(toCorrect[1]).used # Usable(toCorrect[1])
    /\ Outcome(toCorrect[2]).used # {}

InLoop == pc \in {"loop", "resid", "clip", "store", "mark"}

\* zero noise: the surface fitted to the whole of subset2 passes through every ratio
ZeroNoise ==
    LET fx == [n \in 1..Len(subset2) |-> catalog[subset2[n]].x]
        fy == [n \in 1..Len(subset2) |-> catalog[subset2[n]].y]
        fd == [n \in 1..Len(subset2) |-> Ratio(catalog[subset2[n]], CurName)]
    IN  \A s \in Fit(fx, fy, fd, ctrl) :
            \A n \in 1..Len(fd) : FSub(Evaluate(s, fx[n], fy[n]), fd[n]) = Zero

\* C9: with zero noise no point is ever clipped (the working set stays the whole
\* of subset2), and the RMS is 0 in every iteration and after the terminal fit.
C9_ZeroNoise ==
    InLoop =>
        \/ /\ indices = [n \in 1..Len(subset2) |-> n - 1]
           /\ Len(x) = Len(subset2) /\ Len(apCorrData) = Len(subset2)
           /\ (pc = "clip" \/ iter >= 1) => apCorrErr = RootZero
           /\ pc = "clip" => \A k \in 1..Len(apCorrDiffs) : apCorrDiffs[k] = Zero
           /\ pc \in {"store", "mark"} => LoggedRms(CurName) = RootZero
        \/ ~ZeroNoise

\* a sloped, noise-free sample has been through all its clip iterations
C9_Witness ==
    /\ pc = "store"
    /\ ZeroNoise
    /\ iter = MaxNumIter
    /\ Len(x) >= 3
    /\ apCorrField.sx + apCorrField.sy > 0

\* the working points whose residual is within numSigmaClip times the RMS of
\* the residuals of the current working set
Within(k) ==
    LET meanSq == FMean(Squares(apCorrDiffs))
        clipSq == Fin(config.numSigmaClip * config.numSigmaClip, 1)
    IN  /\ meanSq.t = "fin"
        /\ apCorrDiffs[k].t = "fin"
        /\ config.numSigmaClip >= 0
        /\ FLeq(FMul(apCorrDiffs[k], apCorrDiffs[k]), FMul(clipSq, meanSq))

Retained == SelectSeq(IndexSeq(Len(apCorrDiffs)), Within)

\* C10: at each clip the residuals are those of the current fit over the current
\* working set, the RMS is sqrt(mean(residual^2)) of just those (NaN when one of
\* them is NaN), and the points retained, in order, are exactly those with
\* |residual| <= numSigmaClip * RMS; a NaN residual is never retained and the
\* clip raises nothing.
C10_ClipByFreshRms ==
    [][pc = "clip" =>
        /\ Len(apCorrDiffs) = Len(x)
        /\ \A k \in 1..Len(x) :
              apCorrDiffs[k] = FSub(Evaluate(apCorrField, x[k], y[k]), apCorrData[k])
        /\ IF \E k \in 1..Len(x) : apCorrDiffs[k].t = "nan"
           THEN apCorrErr.t = "nan"
           ELSE IF Len(x) = 0 THEN apCorrErr.t = "nan"
           ELSE apCorrErr.t = "root"
                /\ Fin(apCorrErr.n, apCorrErr.d) = FMean(Squares(apCorrDiffs))
        /\ x' = [j \in 1..Len(Retained) |-> x[Retained[j]]]
        /\ y' = [j \in 1..Len(Retained) |-> y[Retained[j]]]
        /\ apCorrData' = [j \in 1..Len(Retained) |-> apCorrData[Retained[j]]]
        /\ indices' = [j \in 1..Len(Retained) |-> indices[Retained[j]]]
        /\ \A j \in 1..Len(indices') : \E k \in 1..Len(x) :
              indices'[j] = indices[k] /\ apCorrDiffs[k].t # "nan"
        /\ pc' = "loop" /\ error' = NoError]_vars

\* a second clip iteration has dropped some points and kept others
C10_Witness ==
    /\ pc = "loop"
    /\ iter = 2
    /\ 0 < Len(x)
    /\ Len(x) < Len(apCorrDiffs)

\* the working arrays are aligned: position k of each holds the data of the
\* record of subset2 that indices[k] names
LockStep ==
    /\ Len(x) = Len(indices) /\ Len(y) = Len(indices) /\ Len(apCorrData) = Len(indices)
    /\ \A k \in 1..Len(indices) :
          /\ indices[k] \in 0..(Len(subset2) - 1)
          /\ x[k] = catalog[subset2[indices[k] + 1]].x
          /\ y[k] = catalog[subset2[indices[k] + 1]].y
          /\ apCorrData[k] = Ratio(catalog[subset2[indices[k] + 1]], CurName)

StrictlyIncreasing(s) == \A j, k \in 1..Len(s) : j < k => s[j] < s[k]

\* C11: throughout the fit loop of a field the working arrays x, y, ratio and
\* indices have one length and are aligned on the same records of subset2; the
\* index array is strictly increasing over positions of subset2; and each clip
\* leaves a working set that is a subset of the one before it, never a larger one.
C11_LockStep ==
    /\ [](InLoop => LockStep /\ StrictlyIncreasing(indices))
    /\ [][pc = "clip" =>
            /\ Range(indices') \subseteq Range(indices)
            /\ Len(indices') <= Len(indices)
            /\ Len(x') <= Len(x)]_vars
    /\ [][(InLoop /\ InLoop') => Len(indices') <= Len(indices)]_vars

\* a clip has removed a point from the middle of the working set and kept the
\* points on both sides of it
C11_Witness ==
    /\ pc = "loop"
    /\ iter >= 1
    /\ Len(indices) = 2
    /\ indices[2] - indices[1] > 1

Max(a, b) == IF a < b THEN b ELSE a

\* len(subset2) - numFreeParameters(orderX, orderY) >= minDegreesOfFreedom
Constrained(c) == Len(subset2) - ComputeSize(c) >= MinDof

\* C12: for a field that passed the minimum-sample check the degree adaptation
\* terminates; each of its iterations lowers orderX by 1 if it is > 0 and orderY
\* by 1 if it is > 0; both orders stay >= 0 and never grow; on exit
\* len(subset2) - numFreeParameters >= minDegreesOfFreedom, and the degree is the
\* configured one when that one already satisfies it.
C12_DegreeAdaptation ==
    /\ ComputeSize([orderX |-> 0, orderY |-> 0, triangular |-> TRUE]) = 1
    /\ ComputeSize([orderX |-> 0, orderY |-> 0, triangular |-> FALSE]) = 1
    /\ [](pc = "adapt" => Len(subset2) - 1 >= MinDof)
    /\ [](pc = "adapt" ~> pc = "loop")
    /\ [][(pc = "check" /\ pc' = "adapt") => ctrl' = config.fitConfig]_vars
    /\ [][(pc = "adapt" /\ pc' = "adapt") =>
            /\ ~Constrained(ctrl)
            /\ ctrl'.orderX = (IF ctrl.orderX > 0 THEN ctrl.orderX - 1 ELSE ctrl.orderX)
            /\ ctrl'.orderY = (IF ctrl.orderY > 0 THEN ctrl.orderY - 1 ELSE ctrl.orderY)
            /\ ctrl'.triangular = ctrl.triangular
            /\ Max(ctrl'.orderX, ctrl'.orderY) < Max(ctrl.orderX, ctrl.orderY)]_vars
    /\ [][(pc \in {"adapt", "loop", "resid", "clip", "store"}) =>
            /\ ctrl'.orderX >= 0 /\ ctrl'.orderX <= ctrl.orderX
            /\ ctrl'.orderY >= 0 /\ ctrl'.orderY <= ctrl.orderY]_vars
    /\ [][(pc = "adapt" /\ pc' = "loop") => Constrained(ctrl) /\ ctrl' = ctrl]_vars
    /\ [](InLoop =>
            /\ Constrained(ctrl)
            /\ Constrained(config.fitConfig) => ctrl = config.fitConfig)

\* the adaptation took two iterations, both orders lowered in each
C12_Witness ==
    /\ pc = "loop"
    /\ config.fitConfig.orderX = 2 /\ config.fitConfig.orderY = 2
    /\ ctrl.orderX = 0 /\ ctrl.orderY = 0
    /\ Len(subset2) >= 2

\* a call of the fit primitive is being made on this step
FitStep == numFits' = numFits + 1

\* C13: a fitted field gets exactly numIter + 1 fits: one at the start of each of
\* the numIter loop iterations, each followed by one clip, and a terminal fit
\* followed by no clip; every fit uses the degree the adaptation chose before
\* the first iteration, never adapted again as clipping shrinks the sample; and
\* the value surface stored in the map is that of the terminal fit.
C13_FitCount ==
    /\ [](pc = "loop" => numFits = iter /\ iter <= config.numIter)
    /\ [](pc \in {"resid", "clip"} => numFits = iter + 1 /\ iter < config.numIter)
    /\ [](pc \in {"store", "mark"} => numFits = config.numIter + 1 /\ iter = config.numIter)
    /\ []((pc \in {"field", "done"} /\ fieldIdx > 1 /\ toCorrect[fieldIdx - 1] \notin Skipped)
            => numFits = config.numIter + 1)
    /\ [](pc = "mark" =>
            /\ apCorrMap[FluxName(CurName)] = apCorrField
            /\ apCorrField \in Fit(x, y, apCorrData, ctrl))
    /\ [][FitStep =>
            /\ pc = "loop"
            /\ apCorrField' \in Fit(x, y, apCorrData, ctrl)
            /\ apCorrField'.orderX = ctrl.orderX /\ apCorrField'.orderY = ctrl.orderY
            /\ IF iter < config.numIter THEN pc' = "resid" ELSE pc' = "store"]_vars
    /\ [][pc = "resid" => pc' = "clip" /\ ~FitStep /\ iter' = iter]_vars
    /\ [][pc = "clip" => pc' = "loop" /\ ~FitStep /\ iter' = iter + 1]_vars
    /\ [][(pc \in {"store", "mark"}) =>
            /\ pc' \in {"mark", "field", "aborted"}
            /\ ~FitStep /\ iter' = iter
            /\ x' = x /\ y' = y /\ apCorrData' = apCorrData /\ indices' = indices
            /\ apCorrField' = apCorrField]_vars
    /\ [][InLoop => ctrl' = ctrl]_vars

\* a field was fitted three times at a degree above (0,0) that clipping left
\* with too few points for the configured degrees of freedom
C13_Witness ==
    /\ pc = "mark"
    /\ numFits = 3
    /\ ctrl.orderX + ctrl.orderY > 0
    /\ 0 < Len(x)
    /\ Len(x) - ComputeSize(ctrl) < MinDof

\* the selector's records with a finite reference flux and no reference flag
RefValid ==
    {r \in 1..Len(catalog) :
        catalog[r].selected /\ catalog[r].refFlux.t = "fin" /\ ~catalog[r].refFlag}

\* those of them with no flag for field f and a finite, strictly positive flux
FieldValid(f) ==
    {r \in RefValid :
        ~catalog[r].flag[f] /\ catalog[r].flux[f].t = "fin" /\ catalog[r].flux[f].n > 0}

\* C14: subset1 is exactly the selector's records, in order, with a finite and
\* unflagged reference flux; subset2 is exactly the records of subset1, in order,
\* with no flag for the field and a finite, strictly positive flux (a NaN,
\* infinite, zero or negative flux excludes the record and raises nothing); the
\* ratio fitted for the n-th record of subset2 is its reference flux divided by
\* its flux for the field.
C14_Filters ==
    /\ [](pc # "select" => StrictlyIncreasing(subset1) /\ Range(subset1) = RefValid)
    /\ [](pc \notin {"select", "field", "done"} =>
            /\ StrictlyIncreasing(subset2)
            /\ Range(subset2) = FieldValid(CurName)
            /\ \A n \in 1..Len(subset2) : \E k \in 1..Len(subset1) : subset1[k] = subset2[n])
    /\ [][(pc \in {"select", "field"}) =>
            pc' \in {"field", "check", "done"} /\ error' = NoError]_vars
    /\ [][(pc = "adapt" /\ pc' = "loop") =>
            /\ Len(apCorrData') = Len(subset2)
            /\ \A n \in 1..Len(subset2) :
                  /\ apCorrData'[n] = FDiv(catalog[subset2[n]].refFlux,
                                            catalog[subset2[n]].flux[CurName])
                  /\ apCorrData'[n].t = "fin"]_vars

\* a field is in its fit with two records of different ratio, after a record
\* with a non-finite reference flux and, between the two, a record with a
\* negative flux were left out
C14_Witness ==
    /\ pc = "loop"
    /\ iter = 0
    /\ Len(subset2) = 2
    /\ apCorrData[1] # apCorrData[2]
    /\ \E r \in 1..Len(catalog) : catalog[r].refFlux.t # "fin"
    /\ \E r \in 1..Len(catalog) :
          /\ subset2[1] < r /\ r < subset2[2]
          /\ catalog[r].flux[CurName].t = "fin" /\ catalog[r].flux[CurName].n < 0
          /\ \E k \in 1..Len(subset1) : subset1[k] = r

\* C15 as stated: with numSigmaClip >= 1, a clip of a non-empty working set
\* whose residuals are all finite retains at least one point, and the terminal
\* fit that follows such clips is not run on zero points.
C15_AsStated ==
    /\ [][(/\ pc = "clip"
            /\ config.numSigmaClip >= 1
            /\ Len(x) > 0
            /\ \A k \in 1..Len(apCorrDiffs) : IsFinite(apCorrDiffs[k]))
           => Len(x') >= 1]_vars
    /\ [][(/\ pc = "loop" /\ pc' = "store"
            /\ config.numSigmaClip >= 1
            /\ Len(apCorrDiffs) > 0
            /\ \A k \in 1..Len(apCorrDiffs) : IsFinite(apCorrDiffs[k]))
           => Len(x) >= 1]_vars

\* the position in toCorrect of field f
FieldPos(f) == CHOOSE i \in 1..Len(toCorrect) : toCorrect[i] = f

\* record r is as run() received it, its "used" flags apart
SameData(r) ==
    /\ catalog[r].x = catalog0[r].x /\ catalog[r].y = catalog0[r].y
    /\ catalog[r].flux = catalog0[r].flux /\ catalog[r].refFlux = catalog0[r].refFlux
    /\ catalog[r].flag = catalog0[r].flag /\ catalog[r].refFlag = catalog0[r].refFlag

\* C16: when run() aborts with the insufficient-data error for a field, no map
\* is returned, no "used" flag has been set for that field or for a field not
\* yet processed, and the flags set for the fields processed earlier stay set;
\* run() never clears a "used" flag and never changes a position or a flux.
C16_AbortFrame ==
    /\ [][pc = "aborted" => FALSE]_vars
    /\ []((pc = "aborted" /\ error.type = "RuntimeError") =>
            /\ error.name = CurName
            /\ \A f \in Fields : FieldPos(f) >= fieldIdx =>
                  \A r \in 1..Len(catalog) : catalog[r].used[f] = catalog0[r].used[f])
    /\ [][(pc = "check" /\ pc' = "aborted") => catalog' = catalog]_vars
    /\ [][/\ Len(catalog') = Len(catalog)
           /\ \A r \in 1..Len(catalog) : \A f \in Fields :
                 catalog[r].used[f] => catalog'[r].used[f]]_vars
    /\ [](Len(catalog) = Len(catalog0) /\ \A r \in 1..Len(catalog) : SameData(r))

\* run() aborted on its second field after marking records for the first; a
\* flag of the failing field left set by an earlier run is still set
C16_Witness ==
    /\ pc = "aborted"
    /\ error.type = "RuntimeError"
    /\ fieldIdx = 2
    /\ \E r \in 1..Len(catalog) :
          catalog[r].used[toCorrect[1]] /\ ~catalog0[r].used[toCorrect[1]]
    /\ \E r \in 1..Len(catalog) : catalog[r].used[toCorrect[2]]

====
